---- MODULE Spec2Model ----
(***************************************************************************)
(* A model of the census dataset loader: the packing-list parser that      *)
(* resolves table segments to column ranges, the tabular and geographical  *)
(* header indexers, and the retrieval operations of IndexedDataset.        *)
(***************************************************************************)
EXTENDS Integers, Sequences, FiniteSets, TLC

VARIABLES
    \* ---- packing-list parser (dataset/packing_list.rs) ----
    pl_schema,        \* the schema handed to extract_table_locations
    pl_lines,         \* the table-information lines of the manifest, in order
    pl_pos,           \* number of table lines consumed by captures_iter
    current_columns,  \* file number -> next free column
    emitted,          \* the (table, locations) items produced so far
    table_locations,  \* the collected map Table -> TableLocations
    pl_status,        \* "idle" | "parsing" | "ok" | "panic"
    parsed,           \* Option<PackingList>: what from_str returned
    header_line,      \* the header line handed to the layout functions
    spans,            \* what all_fields returned (<<>>: not called yet)
    fields_trimmed,   \* Option: what all_fields_trimmed returned
    fields_nonempty,  \* Option: what fields returned
    \* ---- the files of one release on disk (read-only input) ----
    packing_list,     \* the manifest: file-information and table lines
    tabular_disk,     \* file number -> the LOGRECNO column of its rows
    header_disk,      \* the lines of the geographical header file
    debug_assertions, \* whether the build keeps debug_assert!
    \* ---- IndexedDataset (lib.rs, dataset/indexed.rs) ----
    schema,               \* Option<Schema>
    header_index,         \* Option<GeoId -> (LogicalRecordNumber, offset)>
    logical_record_index, \* Option<FileType -> (number -> offset)>
    tables,               \* Schema (with table) -> TableLocations
    files,                \* FileType -> seek position of the open File
    \* ---- the calling program ----
    process,          \* "running" | "dropped" (Err consumed self) | "aborted"
    unpacked,         \* number of unpack calls that returned Ok
    indexed,          \* number of index calls that returned Ok
    ret,              \* the last call and what it returned
    readers           \* each reader thread's retrieval call in progress

pl_vars == <<pl_schema, pl_lines, pl_pos, current_columns, emitted,
             table_locations, pl_status, parsed, header_line, spans, fields_trimmed,
             fields_nonempty>>

disk_vars == <<packing_list, tabular_disk, header_disk, debug_assertions>>

ds_vars == <<schema, header_index, logical_record_index, tables, files>>

prog_vars == <<process, unpacked, indexed, ret, readers>>

vars == <<pl_vars, disk_vars, ds_vars, prog_vars>>

\* ------------------------------------------------------------------------
\* Bounds of the model
\* ------------------------------------------------------------------------

\* Largest number of FILE:WIDTH tokens in one generated manifest (all table
\* lines together).
MaxTokens == 3

\* Largest number of rows of a generated tabular or header file, and the
\* largest LOGRECNO written in them.
MaxRows == 2

\* ------------------------------------------------------------------------
\* Generic helpers
\* ------------------------------------------------------------------------

\* Option<T>: None is the empty sequence, Some(x) the one-element sequence.
None == <<>>
Some(x) == <<x>>
IsSome(o) == o # <<>>
Unwrap(o) == o[1]

EmptyMap == <<>>

Put(m, k, v) == [x \in (DOMAIN m) \cup {k} |-> IF x = k THEN v ELSE m[x]]

RECURSIVE SumSeq(_)
SumSeq(s) == IF s = <<>> THEN 0 ELSE Head(s) + SumSeq(Tail(s))

RECURSIVE Flatten(_)
Flatten(ss) == IF ss = <<>> THEN <<>> ELSE Head(ss) \o Flatten(Tail(ss))

\* ------------------------------------------------------------------------
\* Packing list: table-information lines
\* ------------------------------------------------------------------------

Census2010 == "Census2010Pl94_171"
Census2020 == "Census2020Pl94_171"

Tables2010 == {"p1", "p2", "p3", "p4", "h1"}
Tables2020 == Tables2010 \cup {"p5"}

\* A token of the loc group after split(' '): either FILE:WIDTH or text of
\* another shape.
SpecToken(f, w) == [ok |-> TRUE, file |-> f, columns |-> w]
BadToken == [ok |-> FALSE, file |-> 0, columns |-> 0]

\* <TableSegmentSpecifier as FromStr>::from_str: FILE:WIDTH parses to the
\* specifier, anything else is an error.
ParseSpecifier(tok) ==
    IF tok.ok THEN Some([file |-> tok.file, columns |-> tok.columns]) ELSE None

\* specs.iter().filter_map(|s| s.parse().ok()).collect()
RECURSIVE ParseSpecifiers(_)
ParseSpecifiers(toks) ==
    IF toks = <<>> THEN <<>>
    ELSE LET p == ParseSpecifier(Head(toks))
         IN  (IF IsSome(p) THEN <<Unwrap(p)>> ELSE <<>>)
             \o ParseSpecifiers(Tail(toks))

\* match (schema, name): the Table variant, or unimplemented!()
TableOf(sch, name) ==
    IF sch = Census2010 /\ name \in Tables2010
    THEN Some(<<Census2010, name>>)
    ELSE IF sch = Census2020 /\ name \in Tables2020
    THEN Some(<<Census2020, name>>)
    ELSE None

\* The column a file's cursor starts at the first time the file is used.
FirstColumn == 5

\* A cursor that would restart at the first data column for every segment.
StartColumnPerTable(cur, file) == FirstColumn

\* A cursor that hands out the last column of the previous segment again.
StartColumnBehind(cur, file) ==
    IF file \in DOMAIN cur THEN cur[file] - 1 ELSE FirstColumn

\* current_columns.get(&file), after inserting 5 for a file never seen
StartColumn(cur, file) ==
    IF file \in DOMAIN cur THEN cur[file] ELSE FirstColumn

\* A location one column wider than the specifier says.
ResolveSpecifierWide(cur, sp) ==
    [cur |-> Put(cur, sp.file, StartColumn(cur, sp.file) + sp.columns + 1),
     loc |-> [file  |-> sp.file,
              start |-> StartColumn(cur, sp.file),
              end   |-> StartColumn(cur, sp.file) + sp.columns + 1]]

\* One specifier -> one TableSegmentLocation, and the advanced cursors.
ResolveSpecifier(cur, sp) ==
    LET start == StartColumn(cur, sp.file)
        end   == start + sp.columns
    IN  [cur |-> Put(cur, sp.file, end),
         loc |-> [file |-> sp.file, start |-> start, end |-> end]]

\* specs.iter().map(|specifier| ...).collect(), threading current_columns
RECURSIVE ResolveSpecifiers(_, _)
ResolveSpecifiers(cur, specs) ==
    IF specs = <<>> THEN [cur |-> cur, locs |-> <<>>]
    ELSE LET one  == ResolveSpecifier(cur, Head(specs))
             rest == ResolveSpecifiers(one.cur, Tail(specs))
         IN  [cur |-> rest.cur, locs |-> <<one.loc>> \o rest.locs]

\* .collect() of (Table, TableLocations) items into a map: a later item with
\* the same key replaces the earlier one.
RECURSIVE Collect(_)
Collect(items) ==
    IF items = <<>> THEN EmptyMap
    ELSE LET n == Len(items)
         IN  Put(Collect(SubSeq(items, 1, n - 1)), items[n][1], items[n][2])

\* ------------------------------------------------------------------------
\* Generated manifests
\* ------------------------------------------------------------------------

FileNumbers == {1, 2}
Widths == {1, 2}
LineNames == {"p1", "p5"}

Tokens == {SpecToken(f, w) : f \in FileNumbers, w \in Widths} \cup {BadToken}

\* All sequences of table lines holding at most n tokens together; every line
\* holds at least one token ([\d: ]+ matches no empty loc).
TableLineSeqs[n \in 0..MaxTokens] ==
    {<<>>} \cup
    UNION { UNION { { <<[name |-> nm, loc |-> ts]>> \o rest : nm \in LineNames,
                      ts \in [1..k -> Tokens] }
                    : rest \in TableLineSeqs[n - k] }
            : k \in 1..n }

\* The table lines of the 2010 manifests used by file_parses_and_is_as_expected.
Indiana2010 ==
    << [name |-> "p1", loc |-> <<SpecToken(1, 71)>>],
       [name |-> "p2", loc |-> <<SpecToken(1, 73)>>],
       [name |-> "p3", loc |-> <<SpecToken(2, 71)>>],
       [name |-> "p4", loc |-> <<SpecToken(2, 73)>>],
       [name |-> "h1", loc |-> <<SpecToken(2, 3)>>] >>

Manifests(n) == TableLineSeqs[n] \cup {Indiana2010}

\* ------------------------------------------------------------------------
\* The files of a release on disk
\* ------------------------------------------------------------------------

\* FileType: GeographicalHeader, or Tabular(n) for n >= 1.
GeographicalHeader == 0
Tabular(n) == n
IsTabular(fty) == fty # GeographicalHeader

\* Schema::Census2010Pl94_171(Some(table)) is <<Census2010, name>>;
\* Schema::Census2010Pl94_171(None) is <<Census2010>>.
Bare2010 == <<Census2010>>

\* A file-information line: its ident names the geographical header (0,
\* "geo") or tabular file number n; rows is its LINES column.
FileInfo(id, r) == [ident |-> id, rows |-> r]

\* The specifiers that a manifest's table lines place in tabular file f.
SpecsInFile(lines, f) ==
    LET all == Flatten([i \in 1..Len(lines) |-> lines[i].loc])
    IN  SelectSeq(all, LAMBDA t : t.ok /\ t.file = f)

\* Number of CSV columns of the rows of tabular file f: the five metadata
\* columns, then what the manifest's tables occupy.
DiskColumns(f) ==
    5 + SumSeq([k \in 1..Len(SpecsInFile(packing_list.tinfo, f)) |->
                  SpecsInFile(packing_list.tinfo, f)[k].columns])

\* The cell written in row i (1-based), column c >= 5 of tabular file f.
CellValue(f, i, c) == 1000 * f + 100 * i + c

\* The CSV record that is row i of tabular file f, as a sequence indexed
\* from column 0 at position 1: FILEID, STUSAB, CHARITER, CIFSN, LOGRECNO,
\* then the data cells.
DiskRecord(f, i) ==
    [c1 \in 1..DiskColumns(f) |->
        IF c1 <= 4 THEN 0
        ELSE IF c1 = 5 THEN tabular_disk[f][i]
        ELSE CellValue(f, i, c1 - 1)]

RECURSIVE Digits(_)
Digits(v) == IF v < 10 THEN 1 ELSE 1 + Digits(v \div 10)

\* Bytes of row i of file f: "PLST,IN,000,01," then the seven-digit LOGRECNO,
\* then each cell, every field followed by a comma or the line feed.
RowBytes(f, i) ==
    (4 + 1) + (2 + 1) + (3 + 1) + (2 + 1) + (7 + 1)
    + SumSeq([k \in 1..(DiskColumns(f) - 5) |->
                Digits(CellValue(f, i, k + 4)) + 1])

\* Byte offset at which row i of file f starts (i = Len + 1: end of file).
RECURSIVE RowOffset(_, _)
RowOffset(f, i) == IF i <= 1 THEN 0 ELSE RowOffset(f, i - 1) + RowBytes(f, i - 1)

TabularSize(f) == RowOffset(f, Len(tabular_disk[f]) + 1)

\* The row of file f that starts at byte offset o, if one does.
RowAt(f, o) ==
    LET here == {i \in 1..Len(tabular_disk[f]) : RowOffset(f, i) = o}
    IN  IF here = {} THEN None ELSE Some(CHOOSE i \in here : TRUE)

\* A header line: the fixed-column spans the indexer reads.  logrecno is
\* Some(n) when the span 18..25 holds the digits of n, None otherwise.
HeaderLine(l, s, c, t, b) ==
    [logrecno |-> l, state |-> s, county |-> c, tract |-> t, block |-> b]

\* 500 bytes of content and the line feed.
HeaderLineBytes(i) == 500 + 1

RECURSIVE HeaderOffset(_)
HeaderOffset(i) == IF i <= 1 THEN 0 ELSE HeaderOffset(i - 1) + HeaderLineBytes(i - 1)

HeaderSize == HeaderOffset(Len(header_disk) + 1)

HeaderLineAt(o) ==
    LET here == {i \in 1..Len(header_disk) : HeaderOffset(i) = o}
    IN  IF here = {} THEN None ELSE Some(CHOOSE i \in here : TRUE)

FileSize(fty) == IF IsTabular(fty) THEN TabularSize(fty) ELSE HeaderSize

\* ------------------------------------------------------------------------
\* IndexedDataset::unpack
\* ------------------------------------------------------------------------

\* Line::try_from on a table line: chunk.split(':') must give two numbers,
\* anything else panics (split[1], or expect on the parse).
TableLineParses(line) == \A k \in 1..Len(line.loc) : line.loc[k].ok

TableLineSpecifiers(line) ==
    [k \in 1..Len(line.loc) |->
        [file |-> line.loc[k].file, columns |-> line.loc[k].columns]]

\* A line of the manifest is either a table line [name, loc] or a run of n
\* '#' characters [hashes |-> n]; n = 0 is the empty line.  TABLE_INFORMATION_RE
\* matches the former only.
MatchesTableRE(l) == "name" \in DOMAIN l

\* lines.split(|line| line == "#".repeat(80) || line == "#".repeat(81)):
\* the sections between the separator lines, empty ones included.
RECURSIVE Sections(_, _, _)
Sections(lines, section, sections) ==
    IF lines = <<>> THEN Append(sections, section)
    ELSE IF ~MatchesTableRE(Head(lines)) /\ Head(lines).hashes \in {80, 81}
    THEN Sections(Tail(lines), <<>>, Append(sections, section))
    ELSE Sections(Tail(lines), Append(section, Head(lines)), sections)

\* A reader of sections that stops after the first one it keeps.
UnpackFirstSection(text) ==
    LET kept == SelectSeq(Sections(text, <<>>, <<>>), LAMBDA sec : sec # <<>>)
    IN  IF kept = <<>> THEN <<>> ELSE SelectSeq(kept[1], MatchesTableRE)

\* unpack of lib.rs: the sections that are neither empty nor all blank,
\* flat_map'ed to the lines that TABLE_INFORMATION_RE captures.
UnpackSectionLines(text) ==
    SelectSeq(
        Flatten(SelectSeq(Sections(text, <<>>, <<>>),
                          LAMBDA sec :
                             /\ sec # <<>>
                             /\ \E k \in 1..Len(sec) :
                                   \/ MatchesTableRE(sec[k])
                                   \/ sec[k].hashes # 0)),
        MatchesTableRE)

\* match (self.schema, table_name): the five 2010 tables, or a panic.
UnpackSchemaOf(sch, name) ==
    IF sch = Some(Bare2010) /\ name \in Tables2010
    THEN Some(<<Census2010, name>>)
    ELSE None

\* current_column_numbers.entry(file_number).or_insert(5)
UnpackStartColumn(cur, file) ==
    IF file \in DOMAIN cur THEN cur[file] ELSE 5

\* The loop over one table line's location specifiers.
RECURSIVE UnpackLocations(_, _)
UnpackLocations(cur, specs) ==
    IF specs = <<>> THEN [cur |-> cur, locs |-> <<>>]
    ELSE LET sp    == Head(specs)
             start == UnpackStartColumn(cur, sp.file)
             new   == start + sp.columns
             rest  == UnpackLocations(Put(cur, sp.file, new), Tail(specs))
         IN  [cur  |-> rest.cur,
              locs |-> <<[file |-> sp.file, start |-> start, end |-> new]>>
                       \o rest.locs]

\* The second loop of unpack over the table lines: self.tables.insert for
\* each, with one cursor map for the whole manifest.
RECURSIVE UnpackTables(_, _, _, _)
UnpackTables(sch, lines, cur, tbl) ==
    IF lines = <<>> THEN [ok |-> TRUE, tables |-> tbl]
    ELSE LET line == Head(lines)
             key  == UnpackSchemaOf(sch, line.name)
             res  == UnpackLocations(cur, TableLineSpecifiers(line))
         IN  IF ~IsSome(key) THEN [ok |-> FALSE, tables |-> tbl]
             ELSE UnpackTables(sch, Tail(lines), res.cur,
                               Put(tbl, Unwrap(key), res.locs))

\* The first loop of unpack over the file-information lines: File::open and
\* self.files.insert; a freshly opened File is positioned at byte 0.
RECURSIVE UnpackFiles(_, _)
UnpackFiles(finfo, fls) ==
    IF finfo = <<>> THEN fls
    ELSE UnpackFiles(Tail(finfo), Put(fls, Head(finfo).ident, 0))

\* File::open succeeds for the files the release holds on disk.
OnDisk(fty) == fty = GeographicalHeader \/ fty \in DOMAIN tabular_disk

NoRet == [op |-> "none", status |-> "none", number |-> 0, schemas |-> <<>>,
          geoid |-> "", cells |-> <<>>, logrecno |-> 0, line |-> 0]

Returned(op, status) == [NoRet EXCEPT !.op = op, !.status = status]

\* The threads that share one &IndexedDataset.
Readers == {1, 2}

IdleReader ==
    [pc |-> "idle", number |-> 0, schemas |-> <<>>, geoid |-> "",
     todo |-> <<>>, cells |-> <<>>, result |-> NoRet]

\* Bound on the calls of unpack and of index that the program makes.
MaxCalls == 2

Panic(op) ==
    /\ process' = "aborted"
    /\ ret' = Returned(op, "panic")
    /\ UNCHANGED <<ds_vars, unpacked, indexed>>

\* unpack: the table lines are those of the kept sections (lib.rs) or those
\* of the line stream (dataset/indexed.rs); the two loops are the same in both.
Unpack ==
    /\ process = "running"
    /\ unpacked < MaxCalls
    /\ \E lines \in {UnpackSectionLines(packing_list.tinfo),
                     SelectSeq(packing_list.tinfo, MatchesTableRE)} :
       LET sch == IF packing_list.finfo = <<>> THEN schema ELSE Some(Bare2010)
           res == UnpackTables(sch, lines, EmptyMap, tables)
       IN  IF \/ tables # EmptyMap
              \/ files # EmptyMap
              \/ \E k \in 1..Len(lines) : ~TableLineParses(lines[k])
              \/ \E k \in 1..Len(packing_list.finfo) :
                    ~OnDisk(packing_list.finfo[k].ident)
              \/ ~res.ok
           THEN Panic("unpack")
           ELSE /\ schema' = sch
                /\ files' = UnpackFiles(packing_list.finfo, files)
                /\ tables' = res.tables
                /\ unpacked' = unpacked + 1
                /\ ret' = Returned("unpack", "ok")
                /\ UNCHANGED <<header_index, logical_record_index, process,
                               indexed>>
    /\ UNCHANGED <<pl_vars, disk_vars, readers>>

\* ------------------------------------------------------------------------
\* IndexedDataset::index
\* ------------------------------------------------------------------------

\* The offset just past row i: where the reader stands once it has read it.
RecordPositionAfter(f, i) == RowOffset(f, i + 1)

\* The byte offset the index keeps for the record that is row i of file f:
\* record.position().byte(), the offset of the record's first byte.
RecordPosition(f, i) == RowOffset(f, i)

\* for record in file_reader.records(): index.insert(logrecno, byte_offset),
\* from row i on.  A later row with the same LOGRECNO replaces the entry.
RECURSIVE IndexRecords(_, _, _)
IndexRecords(f, i, idx) ==
    IF i > Len(tabular_disk[f]) THEN idx
    ELSE IndexRecords(f, i + 1,
                      Put(idx, DiskRecord(f, i)[4 + 1], RecordPosition(f, i)))

\* The first arm alone: the state-level summary rows.
HeaderRowSkippedStateOnly(s, c, t, b) ==
    c = "   " /\ t = "      " /\ b = "    "

\* The match on (state_fips, county, tract, block): the three arms that do
\* nothing.
HeaderRowSkipped(s, c, t, b) ==
    \/ (c = "   " /\ t = "      " /\ b = "    ")
    \/ (t = "      " /\ b = "    ")
    \/ b = "    "

\* [s, c, t, b].concat()
GeoIdOf(s, c, t, b) == s \o c \o t \o b

\* An advance by the line's content only, without its line feed.
AdvancePosContent(pos, bytes) == pos + bytes - 1

\* pos += bytes as u64, for every line read
AdvancePos(pos, bytes) == pos + bytes

\* The read_line loop over the header file from line i on, at byte pos.
RECURSIVE IndexHeaderLines(_, _, _)
IndexHeaderLines(i, pos, idx) ==
    IF i > Len(header_disk) THEN [status |-> "ok", index |-> idx]
    ELSE LET l     == header_disk[i]
             geoid == GeoIdOf(l.state, l.county, l.tract, l.block)
             next  == AdvancePos(pos, HeaderLineBytes(i))
         IN  IF HeaderRowSkipped(l.state, l.county, l.tract, l.block)
             THEN IndexHeaderLines(i + 1, next, idx)
             ELSE IF ~IsSome(l.logrecno)
             THEN [status |-> "err", index |-> idx]
             ELSE IF geoid \in DOMAIN idx
             THEN [status |-> "panic", index |-> idx]
             ELSE IndexHeaderLines(i + 1, next,
                                   Put(idx, geoid, <<Unwrap(l.logrecno), pos>>))

\* Reading a file to its end leaves the File positioned at its size.
ReadToEnd(fls) == [fty \in DOMAIN fls |-> FileSize(fty)]

Index ==
    /\ process = "running"
    /\ indexed < MaxCalls
    /\ LET tabs == {fty \in DOMAIN files : IsTabular(fty)}
           lri  == [fty \in tabs |-> IndexRecords(fty, 1, EmptyMap)]
           hdr  == IF GeographicalHeader \in DOMAIN files
                   THEN IndexHeaderLines(1, 0, EmptyMap)
                   ELSE [status |-> "ok", index |-> EmptyMap]
       IN  IF IsSome(logical_record_index) \/ hdr.status = "panic"
           THEN Panic("index")
           ELSE IF hdr.status = "err"
           THEN /\ process' = "dropped"
                /\ ret' = Returned("index", "err")
                /\ UNCHANGED <<ds_vars, unpacked, indexed>>
           ELSE /\ logical_record_index' = Some(lri)
                /\ header_index' = Some(hdr.index)
                /\ files' = ReadToEnd(files)
                /\ indexed' = indexed + 1
                /\ ret' = Returned("index", "ok")
                /\ UNCHANGED <<schema, tables, process, unpacked>>
    /\ UNCHANGED <<pl_vars, disk_vars, readers>>

\* ------------------------------------------------------------------------
\* Reads through the shared File handles
\* ------------------------------------------------------------------------

Min(a, b) == IF a <= b THEN a ELSE b

\* Capacity of the buffer BufReader::new allocates.
BufCapacity == 8192

\* A seek that leaves the File where the last read left it.
SeekToNowhere(fls, fty, offset) == fls

\* A seek that opens the file once more, under a handle of its own.
SeekToReopened(fls, fty, offset) ==
    [f \in DOMAIN fls \cup {fty + 3} |->
        IF f = fty \/ f \notin DOMAIN fls THEN offset ELSE fls[f]]

\* seek(Start(offset)) on a reader over the File: the File is repositioned.
SeekTo(fls, fty, offset) == [fls EXCEPT ![fty] = offset]

\* One fill of a BufReader's buffer from the File's position: the File
\* advances by what was read.
AfterFill(fls, fty) ==
    [fls EXCEPT ![fty] = Min(fls[fty] + BufCapacity, FileSize(fty))]

\* read_record from the File's position: the record starting there, or an
\* empty record at the end of the file.
ReadRecord(fls, fty) ==
    LET row == RowAt(fty, fls[fty])
    IN  IF IsSome(row) THEN DiskRecord(fty, Unwrap(row)) ELSE <<>>

\* cols.map(|col| rec[col].to_string()).collect(): None when rec[col]
\* indexes past the record.
Project(rec, seg) ==
    IF seg.start < seg.end /\ seg.end > Len(rec) THEN None
    ELSE Some([k \in 1..(seg.end - seg.start) |-> rec[seg.start + k]])

\* ------------------------------------------------------------------------
\* IndexedDataset::get_logical_record(number, schemas)
\* ------------------------------------------------------------------------

Failed(fls) == [ok |-> FALSE, cells |-> <<>>, files |-> fls]

Started(fls) == [ok |-> TRUE, cells |-> <<>>, files |-> fls]

\* What the closure yields once the record rec is read and the File is left
\* at fls: the debug assertion on rec[4], then cols.map(...).collect().
Deliver(n, seg, dbg, rec, fls) ==
    IF dbg /\ (Len(rec) < 5 \/ rec[4 + 1] # n) THEN Failed(fls)
    ELSE IF ~IsSome(Project(rec, seg)) THEN Failed(fls)
    ELSE [ok |-> TRUE, cells |-> Unwrap(Project(rec, seg)), files |-> fls]

\* The closure run for one (file type, file, columns) item: index lookup,
\* seek, read_record, the debug assertion, the projection.
ReadSegment(idx, fls, n, seg, dbg) ==
    IF Tabular(seg.file) \notin DOMAIN idx THEN Failed(fls)
    ELSE IF n \notin DOMAIN idx[Tabular(seg.file)] THEN Failed(fls)
    ELSE Deliver(n, seg, dbg,
                 ReadRecord(SeekTo(fls, Tabular(seg.file),
                                   idx[Tabular(seg.file)][n]),
                            Tabular(seg.file)),
                 AfterFill(SeekTo(fls, Tabular(seg.file),
                                  idx[Tabular(seg.file)][n]),
                           Tabular(seg.file)))

\* The part put in front of the record instead of behind it.
ExtendFront(acc, one) ==
    [ok    |-> one.ok,
     cells |-> IF one.ok THEN one.cells \o acc.cells ELSE <<>>,
     files |-> one.files]

\* record.append(&mut table_part)
Extend(acc, one) ==
    [ok    |-> one.ok,
     cells |-> IF one.ok THEN acc.cells \o one.cells ELSE <<>>,
     files |-> one.files]

\* The items of one requested table, consumed in their stored order.
RECURSIVE ReadSegments(_, _, _, _, _)
ReadSegments(idx, acc, n, segs, dbg) ==
    IF segs = <<>> \/ ~acc.ok THEN acc
    ELSE ReadSegments(idx,
                      Extend(acc, ReadSegment(idx, acc.files, n, Head(segs), dbg)),
                      n, Tail(segs), dbg)

\* self.tables.get(schema).unwrap() and self.files.get(&fty).unwrap() for
\* every location of the table: the flat_map closure, run when the table's
\* turn comes.
Located(fls, sch) ==
    /\ sch \in DOMAIN tables
    /\ \A k \in 1..Len(tables[sch]) : Tabular(tables[sch][k].file) \in DOMAIN fls

\* requested_schemas.iter()...flat_map(...): the requested tables in the
\* caller's order.
RECURSIVE ReadTables(_, _, _, _, _)
ReadTables(idx, acc, n, schemas, dbg) ==
    IF schemas = <<>> \/ ~acc.ok THEN acc
    ELSE IF ~Located(acc.files, Head(schemas)) THEN Failed(acc.files)
    ELSE ReadTables(idx,
                    ReadSegments(idx, acc, n, tables[Head(schemas)], dbg),
                    n, Tail(schemas), dbg)

GetLogicalRecord(n, schemas) ==
    /\ process = "running"
    /\ IF ~IsSome(logical_record_index)
       THEN /\ process' = "aborted"
            /\ ret' = [Returned("get_logical_record", "panic")
                         EXCEPT !.number = n, !.schemas = schemas]
            /\ UNCHANGED files
       ELSE \E res \in {ReadTables(Unwrap(logical_record_index), Started(files),
                                   n, schemas, debug_assertions)} :
                /\ files' = res.files
                /\ process' = IF res.ok THEN "running" ELSE "aborted"
                /\ ret' = [Returned("get_logical_record",
                                    IF res.ok THEN "ok" ELSE "panic")
                             EXCEPT !.number = n, !.schemas = schemas,
                                    !.cells = res.cells]
    /\ UNCHANGED <<schema, header_index, logical_record_index, tables,
                   unpacked, indexed, pl_vars, disk_vars, readers>>

\* ------------------------------------------------------------------------
\* IndexedDataset::get_logical_record(number): the record of every tabular
\* file
\* ------------------------------------------------------------------------

\* self.files.iter().filter(|(file_type, _)| file_type.is_tabular()); the
\* records are collected into a BTreeMap, so they come out in key order.
TabularFiles(fls) ==
    LET open == {fty \in DOMAIN fls : IsTabular(fty)}
    IN  CHOOSE seq \in [1..Cardinality(open) -> open] :
           \A i, j \in 1..Cardinality(open) : i < j => seq[i] < seq[j]

\* The closure run for one tabular file: both index lookups, seek on the
\* BufReader, read_record.
ReadWholeRecord(idx, fls, n, fty) ==
    IF fty \notin DOMAIN idx THEN Failed(fls)
    ELSE IF n \notin DOMAIN idx[fty] THEN Failed(fls)
    ELSE [ok    |-> TRUE,
          cells |-> <<ReadRecord(SeekTo(fls, fty, idx[fty][n]), fty)>>,
          files |-> AfterFill(SeekTo(fls, fty, idx[fty][n]), fty)]

RECURSIVE ReadFiles(_, _, _, _)
ReadFiles(idx, acc, n, ftys) ==
    IF ftys = <<>> \/ ~acc.ok THEN acc
    ELSE ReadFiles(idx,
                   Extend(acc, ReadWholeRecord(idx, acc.files, n, Head(ftys))),
                   n, Tail(ftys))

GetFileBackedLogicalRecord(number) ==
    /\ process = "running"
    /\ IF ~IsSome(logical_record_index)
       THEN /\ process' = "aborted"
            /\ ret' = [Returned("get_file_backed_logical_record", "panic")
                         EXCEPT !.number = number]
            /\ UNCHANGED files
       ELSE \E res \in {ReadFiles(Unwrap(logical_record_index), Started(files),
                                  number, TabularFiles(files))} :
                /\ files' = res.files
                /\ process' = IF res.ok THEN "running" ELSE "aborted"
                /\ ret' = [Returned("get_file_backed_logical_record",
                                    IF res.ok THEN "ok" ELSE "panic")
                             EXCEPT !.number = number, !.cells = res.cells]
    /\ UNCHANGED <<schema, header_index, logical_record_index, tables,
                   unpacked, indexed, pl_vars, disk_vars, readers>>

\* ------------------------------------------------------------------------
\* get_logical_record_number_for_geoid, get_header_for_geoid
\* ------------------------------------------------------------------------

GetLogicalRecordNumberForGeoid(geoid) ==
    /\ process = "running"
    /\ IF IsSome(header_index) /\ geoid \in DOMAIN Unwrap(header_index)
       THEN /\ ret' = [Returned("get_logical_record_number_for_geoid", "ok")
                         EXCEPT !.geoid = geoid,
                                !.logrecno = Unwrap(header_index)[geoid][1]]
            /\ UNCHANGED process
       ELSE /\ ret' = [Returned("get_logical_record_number_for_geoid", "panic")
                         EXCEPT !.geoid = geoid]
            /\ process' = "aborted"
    /\ UNCHANGED <<ds_vars, unpacked, indexed, pl_vars, disk_vars, readers>>

\* read_line from the File's position: the line starting there (0: none, at
\* the end of the file).
ReadLine(fls) ==
    LET l == HeaderLineAt(fls[GeographicalHeader])
    IN  IF IsSome(l) THEN Unwrap(l) ELSE 0

\* GeographicalHeader::logrecno() of the view over header line i: the
\* LOGRECNO span, parsed.
HeaderLogrecno(i) ==
    IF i \in 1..Len(header_disk) /\ IsSome(header_disk[i].logrecno)
    THEN Unwrap(header_disk[i].logrecno)
    ELSE 0

GetHeaderForGeoid(geoid) ==
    /\ process = "running"
    /\ IF /\ IsSome(header_index)
          /\ geoid \in DOMAIN Unwrap(header_index)
          /\ IsSome(schema)
          /\ GeographicalHeader \in DOMAIN files
       THEN LET sought == SeekTo(files, GeographicalHeader,
                                 Unwrap(header_index)[geoid][2])
            IN  /\ files' = AfterFill(sought, GeographicalHeader)
                /\ ret' = [Returned("get_header_for_geoid", "ok")
                             EXCEPT !.geoid = geoid,
                                    !.line = ReadLine(sought),
                                    !.logrecno = HeaderLogrecno(ReadLine(sought))]
                /\ UNCHANGED process
       ELSE /\ ret' = [Returned("get_header_for_geoid", "panic")
                         EXCEPT !.geoid = geoid]
            /\ process' = "aborted"
            /\ UNCHANGED files
    /\ UNCHANGED <<schema, header_index, logical_record_index, tables,
                   unpacked, indexed, pl_vars, disk_vars, readers>>

\* ------------------------------------------------------------------------
\* Generated releases and requests
\* ------------------------------------------------------------------------

TableLine(nm, toks) == [name |-> nm, loc |-> toks]

ManifestFiles ==
    << FileInfo(GeographicalHeader, MaxRows), FileInfo(Tabular(1), MaxRows),
       FileInfo(Tabular(2), MaxRows) >>

\* Two tables share file 1, p2 is split across both files.
ManifestSplit ==
    [finfo |-> ManifestFiles,
     tinfo |-> << TableLine("p1", <<SpecToken(1, 2)>>),
                  TableLine("p2", <<SpecToken(1, 1), SpecToken(2, 2)>>),
                  TableLine("h1", <<SpecToken(2, 1)>>) >>]

\* p1 is split with its file 2 segment first.
ManifestReversed ==
    [finfo |-> ManifestFiles,
     tinfo |-> << TableLine("p1", <<SpecToken(2, 1), SpecToken(1, 2)>>),
                  TableLine("p2", <<SpecToken(2, 2)>>) >>]

\* A manifest without any recognised line.
ManifestEmpty == [finfo |-> <<>>, tinfo |-> <<>>]

RowSeqs == UNION {[1..k -> 1..MaxRows] : k \in 0..MaxRows}

\* Every LOGRECNO from 1 to MaxRows once, in order.
FullRows == [i \in 1..MaxRows |-> i]

StateRow(l) == HeaderLine(l, "18", "   ", "      ", "    ")
TractRow(l) == HeaderLine(l, "18", "157", "005200", "    ")
BlockRow(l, b) == HeaderLine(l, "18", "157", "005200", b)
NoCountyRow(l) == HeaderLine(l, "18", "   ", "005200", "1013")

LogrecnoFields == {Some(n) : n \in 1..MaxRows} \cup {None}

\* Summary rows (their LOGRECNO is never parsed), a block row with every
\* LOGRECNO field, a second block, and a block row whose COUNTY is blank.
HeaderLines ==
    {StateRow(Some(1)), TractRow(Some(1)), NoCountyRow(Some(1)),
     BlockRow(Some(1), "1014")}
    \cup {BlockRow(l, "1013") : l \in LogrecnoFields}

HeaderFiles == UNION {[1..k -> HeaderLines] : k \in 0..MaxRows}

\* One tabular file with any rows, the other complete.
TabularDisks ==
    {[f \in {1, 2} |-> IF f = g THEN s ELSE FullRows] :
        g \in {1, 2}, s \in RowSeqs}

\* A state-level summary row followed by one block.
PlainHeader == << StateRow(Some(1)), BlockRow(Some(2), "1013") >>

P1 == <<Census2010, "p1">>
P2 == <<Census2010, "p2">>
P3 == <<Census2010, "p3">>
H1 == <<Census2010, "h1">>

RequestSchemas ==
    { <<>>, <<P1>>, <<P2>>, <<H1>>, <<P1, P2>>, <<P2, P1>>, <<P2, P2>>,
      <<H1, P2, P1>>, <<P3>>, <<P1, P3>>, <<Bare2010>> }

RequestNumbers == 1..(MaxRows + 1)

RequestGeoIds ==
    { "181570052001013", "181570052001014", "18   0052001013",
      "18157005200    ", "18             ", "999999999999999" }

\* ------------------------------------------------------------------------
\* The program: IndexedDataset::new, then any calls, one at a time
\* ------------------------------------------------------------------------

PLIdle ==
    /\ pl_schema = Census2010
    /\ pl_lines = <<>>
    /\ pl_pos = 0
    /\ current_columns = EmptyMap
    /\ emitted = <<>>
    /\ table_locations = EmptyMap
    /\ pl_status = "idle"
    /\ parsed = None
    /\ header_line = <<>>
    /\ spans = <<>>
    /\ fields_trimmed = None
    /\ fields_nonempty = None

\* IndexedDataset::new: Self::default() with the identifier.
New ==
    /\ schema = None
    /\ header_index = None
    /\ logical_record_index = None
    /\ tables = EmptyMap
    /\ files = EmptyMap
    /\ process = "running"
    /\ unpacked = 0
    /\ indexed = 0
    /\ ret = NoRet
    /\ readers = [r \in Readers |-> IdleReader]

Init ==
    /\ PLIdle
    /\ \/ /\ packing_list \in {ManifestSplit, ManifestReversed}
          /\ tabular_disk \in TabularDisks
          /\ header_disk = PlainHeader
       \/ /\ packing_list = ManifestSplit
          /\ tabular_disk = [f \in {1, 2} |-> FullRows]
          /\ header_disk \in HeaderFiles
       \/ /\ packing_list = ManifestEmpty
          /\ tabular_disk = [f \in {1, 2} |-> FullRows]
          /\ header_disk = PlainHeader
    /\ debug_assertions = TRUE
    /\ New

Next ==
    \/ Unpack
    \/ Index
    \/ \E n \in RequestNumbers, ts \in RequestSchemas : GetLogicalRecord(n, ts)
    \/ \E n \in RequestNumbers : GetFileBackedLogicalRecord(n)
    \/ \E g \in RequestGeoIds : GetLogicalRecordNumberForGeoid(g)
    \/ \E g \in RequestGeoIds : GetHeaderForGeoid(g)

Spec == Init /\ [][Next]_vars

\* ------------------------------------------------------------------------
\* Readers in parallel on one indexed dataset: every seek and every read on
\* a File shared through &self is a step of its own
\* ------------------------------------------------------------------------

\* An item that stands for a requested table without locations or files:
\* producing it panics.
Missing == [file |-> 0, start |-> 0, end |-> 0]

\* The items the lazy iterator of get_logical_record yields, in order.
RECURSIVE Items(_, _)
Items(fls, schemas) ==
    IF schemas = <<>> THEN <<>>
    ELSE IF ~Located(fls, Head(schemas)) THEN <<Missing>>
    ELSE tables[Head(schemas)] \o Items(fls, Tail(schemas))

ReaderPanics(r, op) ==
    /\ process' = "aborted"
    /\ readers' = [readers EXCEPT ![r].pc = "aborted",
                                  ![r].result = Returned(op, "panic")]

\* get_logical_record is entered: match &self.index, then the iterator is
\* driven; an empty request returns at once.
CallGetLogicalRecord(r, n, schemas) ==
    /\ process = "running"
    /\ readers[r].pc = "idle"
    /\ IF ~IsSome(logical_record_index)
       THEN ReaderPanics(r, "get_logical_record")
       ELSE /\ readers' =
                 [readers EXCEPT ![r] =
                    [pc |-> IF Items(files, schemas) = <<>>
                            THEN "idle" ELSE "seek",
                     number |-> n, schemas |-> schemas, geoid |-> "",
                     todo |-> Items(files, schemas), cells |-> <<>>,
                     result |-> IF Items(files, schemas) = <<>>
                                THEN Returned("get_logical_record", "ok")
                                ELSE NoRet]]
            /\ UNCHANGED process
    /\ UNCHANGED <<pl_vars, disk_vars, ds_vars, unpacked, indexed, ret>>

\* The next item: the index lookups and reader.seek(pos), which moves the
\* File's cursor.
SeekRecord(r) ==
    /\ process = "running"
    /\ readers[r].pc = "seek"
    /\ LET seg == Head(readers[r].todo)
           fty == Tabular(seg.file)
           idx == Unwrap(logical_record_index)
       IN  IF \/ seg = Missing
              \/ fty \notin DOMAIN idx
              \/ readers[r].number \notin DOMAIN idx[fty]
           THEN ReaderPanics(r, "get_logical_record") /\ UNCHANGED files
           ELSE /\ files' = SeekTo(files, fty, idx[fty][readers[r].number])
                /\ readers' = [readers EXCEPT ![r].pc = "read"]
                /\ UNCHANGED process
    /\ UNCHANGED <<pl_vars, disk_vars, schema, header_index,
                   logical_record_index, tables, unpacked, indexed, ret>>

\* reader.read_record: the bytes come from wherever the File's cursor is
\* now; then the debug assertion, the projection and record.append.
ReadRecordStep(r) ==
    /\ process = "running"
    /\ readers[r].pc = "read"
    /\ \E got \in {Deliver(readers[r].number, Head(readers[r].todo),
                           debug_assertions,
                           ReadRecord(files, Tabular(Head(readers[r].todo).file)),
                           AfterFill(files, Tabular(Head(readers[r].todo).file)))} :
          /\ files' = got.files
          /\ IF ~got.ok
             THEN ReaderPanics(r, "get_logical_record")
             ELSE /\ readers' =
                       [readers EXCEPT
                          ![r].cells = @ \o got.cells,
                          ![r].todo = Tail(@),
                          ![r].pc = IF Tail(readers[r].todo) = <<>>
                                    THEN "idle" ELSE "seek",
                          ![r].result =
                              IF Tail(readers[r].todo) = <<>>
                              THEN [Returned("get_logical_record", "ok")
                                      EXCEPT !.number = readers[r].number,
                                             !.schemas = readers[r].schemas,
                                             !.cells = readers[r].cells
                                                       \o got.cells]
                              ELSE NoRet]
                  /\ UNCHANGED process
    /\ UNCHANGED <<pl_vars, disk_vars, schema, header_index,
                   logical_record_index, tables, unpacked, indexed, ret>>

\* get_header_for_geoid up to reader.seek(SeekFrom::Start(line_offset)).
SeekHeader(r, geoid) ==
    /\ process = "running"
    /\ readers[r].pc = "idle"
    /\ IF /\ IsSome(header_index)
          /\ geoid \in DOMAIN Unwrap(header_index)
          /\ IsSome(schema)
          /\ GeographicalHeader \in DOMAIN files
       THEN /\ files' = SeekTo(files, GeographicalHeader,
                               Unwrap(header_index)[geoid][2])
            /\ readers' = [readers EXCEPT ![r] =
                             [IdleReader EXCEPT !.pc = "line",
                                                !.geoid = geoid]]
            /\ UNCHANGED process
       ELSE ReaderPanics(r, "get_header_for_geoid") /\ UNCHANGED files
    /\ UNCHANGED <<pl_vars, disk_vars, schema, header_index,
                   logical_record_index, tables, unpacked, indexed, ret>>

\* reader.read_line(&mut line) and the view over the line.
ReadHeader(r) ==
    /\ process = "running"
    /\ readers[r].pc = "line"
    /\ files' = AfterFill(files, GeographicalHeader)
    /\ readers' = [readers EXCEPT
                     ![r].pc = "idle",
                     ![r].result =
                         [Returned("get_header_for_geoid", "ok")
                            EXCEPT !.geoid = readers[r].geoid,
                                   !.line = ReadLine(files),
                                   !.logrecno = HeaderLogrecno(ReadLine(files))]]
    /\ UNCHANGED <<pl_vars, disk_vars, schema, header_index,
                   logical_record_index, tables, process, unpacked, indexed,
                   ret>>

\* A state summary row and two blocks.
TwoBlockHeader ==
    << StateRow(Some(1)), BlockRow(Some(1), "1013"), BlockRow(Some(2), "1014") >>

ReaderSchemas == { <<P1>>, <<P2>> }

ReaderGeoIds == { "181570052001013", "181570052001014" }

\* The dataset after new(), unpack() and index() on a complete release, in
\* either build.
InitIndexed ==
    /\ PLIdle
    /\ packing_list = ManifestSplit
    /\ tabular_disk = [f \in {1, 2} |-> FullRows]
    /\ header_disk = TwoBlockHeader
    /\ debug_assertions \in BOOLEAN
    /\ schema = Some(Bare2010)
    /\ tables = UnpackTables(Some(Bare2010), packing_list.tinfo, EmptyMap,
                             EmptyMap).tables
    /\ files = ReadToEnd(UnpackFiles(packing_list.finfo, EmptyMap))
    /\ logical_record_index =
          Some([fty \in {Tabular(1), Tabular(2)} |->
                   IndexRecords(fty, 1, EmptyMap)])
    /\ header_index = Some(IndexHeaderLines(1, 0, EmptyMap).index)
    /\ process = "running"
    /\ unpacked = 1
    /\ indexed = 1
    /\ ret = Returned("index", "ok")
    /\ readers = [r \in Readers |-> IdleReader]

NextConc ==
    \E r \in Readers :
       \/ \E n \in 1..MaxRows, ts \in ReaderSchemas :
             CallGetLogicalRecord(r, n, ts)
       \/ SeekRecord(r)
       \/ ReadRecordStep(r)
       \/ \E g \in ReaderGeoIds : SeekHeader(r, g)
       \/ ReadHeader(r)

SpecConc == InitIndexed /\ [][NextConc]_vars

\* ------------------------------------------------------------------------
\* extract_table_locations as a state machine: one step per matched line
\* ------------------------------------------------------------------------

DiskIdle ==
    /\ packing_list = ManifestEmpty
    /\ tabular_disk = [f \in {1, 2} |-> <<>>]
    /\ header_disk = <<>>
    /\ debug_assertions = TRUE

PLInit ==
    /\ DiskIdle
    /\ New
    /\ pl_schema \in {Census2010, Census2020}
    /\ pl_lines \in Manifests(MaxTokens)
    /\ pl_pos = 0
    /\ current_columns = EmptyMap
    /\ emitted = <<>>
    /\ table_locations = EmptyMap
    /\ pl_status = "parsing"
    /\ parsed = None
    /\ header_line = <<>>
    /\ spans = <<>>
    /\ fields_trimmed = None
    /\ fields_nonempty = None

\* The closure of captures_iter(s).map(...) applied to the next match.
ExtractTableLine ==
    /\ pl_status = "parsing"
    /\ pl_pos < Len(pl_lines)
    /\ LET line  == pl_lines[pl_pos + 1]
           specs == ParseSpecifiers(line.loc)
           table == TableOf(pl_schema, line.name)
           res   == ResolveSpecifiers(current_columns, specs)
       IN  IF ~IsSome(table)
           THEN /\ pl_status' = "panic"
                /\ UNCHANGED <<pl_pos, current_columns, emitted>>
           ELSE /\ pl_pos' = pl_pos + 1
                /\ current_columns' = res.cur
                /\ emitted' = Append(emitted, <<Unwrap(table), res.locs>>)
                /\ pl_status' = "parsing"
    /\ UNCHANGED <<pl_schema, pl_lines, table_locations, parsed, header_line, spans,
                   fields_trimmed, fields_nonempty>>
    /\ UNCHANGED <<disk_vars, ds_vars, prog_vars>>

\* The iterator is exhausted: .collect() builds the map.
ExtractCollect ==
    /\ pl_status = "parsing"
    /\ pl_pos = Len(pl_lines)
    /\ table_locations' = Collect(emitted)
    /\ pl_status' = "ok"
    /\ UNCHANGED <<pl_schema, pl_lines, pl_pos, current_columns, emitted,
                   parsed, header_line, spans, fields_trimmed, fields_nonempty>>
    /\ UNCHANGED <<disk_vars, ds_vars, prog_vars>>

PLNext == ExtractTableLine \/ ExtractCollect

SpecPL == PLInit /\ [][PLNext]_vars

\* ------------------------------------------------------------------------
\* PackingList::from_str
\* ------------------------------------------------------------------------

\* Largest number of file-information lines of a generated manifest.
MaxFileLines == 3

\* One match of FILE_INFORMATION_RE_ML: <stusab><ident><year>.<ext>|..|lines|
FileLine(id, y, e, r) == [ident |-> id, year |-> y, ext |-> e, rows |-> r]

\* The match in extract_schemas on (inner, year, ext): the one recognised
\* pair, or unimplemented!().
SchemaOfName(y, e) ==
    IF y = "2010" /\ e = "pl" THEN Some(Census2010) ELSE None

\* extract_schemas: one schema per file-name match, in manifest order.
ExtractSchemas(finfo) ==
    [k \in 1..Len(finfo) |-> SchemaOfName(finfo[k].year, finfo[k].ext)]

\* Vec::dedup: consecutive repeated elements are removed.
RECURSIVE Dedup(_)
Dedup(v) ==
    IF Len(v) <= 1 THEN v
    ELSE IF v[1] = v[2] THEN Dedup(Tail(v))
    ELSE <<v[1]>> \o Dedup(Tail(v))

\* partition_file_information: .find(|fi| fi.ty == GeographicalHeader), the
\* first such line (0: expect panics).
FirstHeader(finfo) ==
    IF \E k \in 1..Len(finfo) : finfo[k].ident = GeographicalHeader
    THEN CHOOSE k \in 1..Len(finfo) :
            /\ finfo[k].ident = GeographicalHeader
            /\ \A j \in 1..(k - 1) : finfo[j].ident # GeographicalHeader
    ELSE 0

\* partition_file_information: the tabular lines collected into a map keyed
\* by their index; the value is the position of the line, and a later line
\* with the same index replaces the earlier one.
TabularPartition(finfo) ==
    [id \in {finfo[k].ident : k \in {j \in 1..Len(finfo) :
                                        IsTabular(finfo[j].ident)}} |->
        CHOOSE k \in 1..Len(finfo) :
           /\ finfo[k].ident = id
           /\ \A j \in (k + 1)..Len(finfo) : finfo[j].ident # id]

\* The orders in which iterating the hash map may yield its keys.
IterationOrders(keys) ==
    {seq \in [1..Cardinality(keys) -> keys] :
        \A i, j \in 1..Cardinality(keys) : i # j => seq[i] # seq[j]}

\* convert_file_information, the row count: the tabular rows in iteration
\* order, the header's rows pushed last, dedup, the debug assertion, vec[0].
ConvertRows(finfo, order, dbg) ==
    LET vec == [k \in 1..Len(order) |->
                   finfo[TabularPartition(finfo)[order[k]]].rows]
               \o <<finfo[FirstHeader(finfo)].rows>>
    IN  IF dbg /\ Len(Dedup(vec)) # 1 THEN None ELSE Some(Dedup(vec)[1])

\* extract_table_locations over all table lines at once.
RECURSIVE ExtractTableLocations(_, _, _, _)
ExtractTableLocations(sch, lines, cur, items) ==
    IF lines = <<>> THEN Some(Collect(items))
    ELSE IF ~IsSome(TableOf(sch, Head(lines).name)) THEN None
    ELSE ExtractTableLocations(
            sch, Tail(lines),
            ResolveSpecifiers(cur, ParseSpecifiers(Head(lines).loc)).cur,
            Append(items,
                   <<Unwrap(TableOf(sch, Head(lines).name)),
                     ResolveSpecifiers(cur,
                                       ParseSpecifiers(Head(lines).loc)).locs>>))

FromStrPanics ==
    /\ pl_status' = "panic"
    /\ parsed' = None

\* from_str on the manifest packing_list: the schema phase, the file
\* information phase, the table location phase.
FromStr ==
    /\ pl_status = "idle"
    /\ \E order \in IterationOrders(DOMAIN TabularPartition(packing_list.finfo)) :
          LET finfo   == packing_list.finfo
              schemas == ExtractSchemas(finfo)
          IN  IF \/ \E k \in 1..Len(schemas) : ~IsSome(schemas[k])
                 \/ Len(Dedup(schemas)) # 1
                 \/ FirstHeader(finfo) = 0
              THEN FromStrPanics
              ELSE \E rows \in {ConvertRows(finfo, order, debug_assertions)},
                      locs \in {ExtractTableLocations(
                                   Unwrap(schemas[1]),
                                   SelectSeq(packing_list.tinfo, MatchesTableRE),
                                   EmptyMap, <<>>)} :
                      IF ~IsSome(rows) \/ ~IsSome(locs)
                      THEN FromStrPanics
                      ELSE /\ pl_status' = "ok"
                           /\ parsed' =
                                Some([schema |-> Unwrap(schemas[1]),
                                      table_locations |-> Unwrap(locs),
                                      tabular_files |->
                                          TabularPartition(finfo),
                                      geographical_header_file |->
                                          FirstHeader(finfo),
                                      rows |-> Unwrap(rows)])
    /\ UNCHANGED <<pl_schema, pl_lines, pl_pos, current_columns, emitted,
                   table_locations, header_line, spans, fields_trimmed,
                   fields_nonempty, disk_vars, ds_vars, prog_vars>>

\* The file-information lines of 2010 releases: every sequence of at most n
\* lines over the header and two tabular files with 1..MaxRows lines each.
FileLineSeqs[n \in 0..(MaxFileLines + 1)] ==
    IF n = 0 THEN {<<>>}
    ELSE FileLineSeqs[n - 1] \cup
         { Append(fs, FileLine(id, "2010", "pl", r)) :
              fs \in {gs \in FileLineSeqs[n - 1] : Len(gs) = n - 1},
              id \in {GeographicalHeader, Tabular(1), Tabular(2)},
              r \in 1..MaxRows }

\* What the file names of a release may say: the recognised pair, the 2020
\* redistricting release, a summary file of 2010.
ReleaseNames == {<<"2010", "pl">>, <<"2020", "pl">>, <<"2010", "sf1">>}

\* The header and first tabular file of a release whose names say a and b.
NamedFiles(a, b) ==
    << FileLine(GeographicalHeader, a[1], a[2], MaxRows),
       FileLine(Tabular(1), b[1], b[2], MaxRows),
       FileLine(Tabular(2), b[1], b[2], MaxRows) >>

\* The table lines of a 2020 release: those of 2010 and p5.
Indiana2020 == Append(Indiana2010, TableLine("p5", <<SpecToken(3, 10)>>))

\* Table lines naming a table that no schema has.
UnknownTableLines ==
    << TableLine("p1", <<SpecToken(1, 71)>>),
       TableLine("p9", <<SpecToken(1, 73)>>) >>

\* The manifests handed to from_str; one file-name match per file line.
FromStrInit ==
    /\ PLIdle
    /\ New
    /\ tabular_disk = [f \in {1, 2} |-> <<>>]
    /\ header_disk = <<>>
    /\ debug_assertions \in BOOLEAN
    /\ \/ packing_list \in [finfo : FileLineSeqs[MaxFileLines],
                            tinfo : {Indiana2010}]
       \/ packing_list \in
             [finfo : {NamedFiles(a, b) : a \in ReleaseNames,
                                          b \in ReleaseNames},
              tinfo : {Indiana2010, Indiana2020, UnknownTableLines,
                       ManifestSplit.tinfo}]

SpecFromStr == FromStrInit /\ [][FromStr]_vars

\* ------------------------------------------------------------------------
\* The field catalog of the PL94-171 geographical header
\* ------------------------------------------------------------------------

\* enum Field: its variants as declared.
Field ==
    << "FILEID", "STUSAB", "SUMLEV", "GEOCOMP", "CHARITER", "CIFSN",
       "LOGRECNO", "REGION", "DIVISION", "STATE", "COUNTY", "COUNTYCC",
       "COUNTYSC", "COUSUB", "COUSUBCC", "COUSUBSC", "PLACE", "PLACECC",
       "PLACESC", "TRACT", "BLKGRP", "BLOCK", "IUC", "CONCIT", "CONCITCC",
       "CONCITSC", "AIANHH", "AIANHHFP", "AIANHHCC", "AIHHTLI", "AITSCE",
       "AITS", "AITSCC", "TTRACT", "TBLKGRP", "ANRC", "ANRCCC", "CBSA",
       "CBASC", "METDIV", "CSA", "NECTA", "NECTASC", "NECTADIV", "CNECTA",
       "CBSAPCI", "NECTAPCI", "UA", "UASC", "UATYPE", "UR", "CD", "SLDU",
       "SLDL", "VTD", "VTDI", "RESERVE2", "ZCTA5", "SUBMCD", "SUBMCDCC",
       "SDELM", "SDSEC", "SDUNI", "AREALAND", "AREAWATR", "NAME", "FUNCSTAT",
       "GCUNI", "POP100", "HU100", "INTPTLAT", "INTPTLON", "LSADC", "PARTFLAG",
       "RESERVE3", "UGA", "STATENS", "COUNTYNS", "COUSUBNS", "PLACENS",
       "CONCITNS", "AIANHHNS", "AITSNS", "ANRCNS", "SUBMCDNS", "CD113",
       "CD114", "CD115", "SLDU2", "SLDU3", "SLDU4", "SLDL2", "SLDL3", "SLDL4",
       "AIANHHSC", "CSASC", "CNECTASC", "MEMI", "NMEMI", "PUMA", "RESERVED" >>

\* A list that leaves the last variant out.
FIELDSWithoutLast == SubSeq(Field, 1, Len(Field) - 1)

\* const FIELDS: the variants of Field in declared order.
FIELDS ==
    << "FILEID", "STUSAB", "SUMLEV", "GEOCOMP", "CHARITER", "CIFSN",
       "LOGRECNO", "REGION", "DIVISION", "STATE", "COUNTY", "COUNTYCC",
       "COUNTYSC", "COUSUB", "COUSUBCC", "COUSUBSC", "PLACE", "PLACECC",
       "PLACESC", "TRACT", "BLKGRP", "BLOCK", "IUC", "CONCIT", "CONCITCC",
       "CONCITSC", "AIANHH", "AIANHHFP", "AIANHHCC", "AIHHTLI", "AITSCE",
       "AITS", "AITSCC", "TTRACT", "TBLKGRP", "ANRC", "ANRCCC", "CBSA",
       "CBASC", "METDIV", "CSA", "NECTA", "NECTASC", "NECTADIV", "CNECTA",
       "CBSAPCI", "NECTAPCI", "UA", "UASC", "UATYPE", "UR", "CD", "SLDU",
       "SLDL", "VTD", "VTDI", "RESERVE2", "ZCTA5", "SUBMCD", "SUBMCDCC",
       "SDELM", "SDSEC", "SDUNI", "AREALAND", "AREAWATR", "NAME", "FUNCSTAT",
       "GCUNI", "POP100", "HU100", "INTPTLAT", "INTPTLON", "LSADC", "PARTFLAG",
       "RESERVE3", "UGA", "STATENS", "COUNTYNS", "COUSUBNS", "PLACENS",
       "CONCITNS", "AIANHHNS", "AITSNS", "ANRCNS", "SUBMCDNS", "CD113",
       "CD114", "CD115", "SLDU2", "SLDU3", "SLDU4", "SLDL2", "SLDL3", "SLDL4",
       "AIANHHSC", "CSASC", "CNECTASC", "MEMI", "NMEMI", "PUMA", "RESERVED" >>

\* The constants FILEID..RESERVED: name, start, end of each Range.
ConstantRanges ==
    << <<"FILEID", 0, 6>>, <<"STUSAB", 6, 8>>, <<"SUMLEV", 8, 11>>,
       <<"GEOCOMP", 11, 13>>, <<"CHARITER", 13, 16>>, <<"CIFSN", 16, 18>>,
       <<"LOGRECNO", 18, 25>>, <<"REGION", 25, 26>>, <<"DIVISION", 26, 27>>,
       <<"STATE", 27, 29>>, <<"COUNTY", 29, 32>>, <<"COUNTYCC", 32, 34>>,
       <<"COUNTYSC", 34, 36>>, <<"COUSUB", 36, 41>>, <<"COUSUBCC", 41, 43>>,
       <<"COUSUBSC", 43, 45>>, <<"PLACE", 45, 50>>, <<"PLACECC", 50, 52>>,
       <<"PLACESC", 52, 54>>, <<"TRACT", 54, 60>>, <<"BLKGRP", 60, 61>>,
       <<"BLOCK", 61, 65>>, <<"IUC", 65, 67>>, <<"CONCIT", 67, 72>>,
       <<"CONCITCC", 72, 74>>, <<"CONCITSC", 74, 76>>, <<"AIANHH", 76, 80>>,
       <<"AIANHHFP", 80, 85>>, <<"AIANHHCC", 85, 87>>, <<"AIHHTLI", 87, 88>>,
       <<"AITSCE", 88, 91>>, <<"AITS", 91, 96>>, <<"AITSCC", 96, 98>>,
       <<"TTRACT", 98, 104>>, <<"TBLKGRP", 104, 105>>, <<"ANRC", 105, 110>>,
       <<"ANRCCC", 110, 112>>, <<"CBSA", 112, 117>>, <<"CBASC", 117, 119>>,
       <<"METDIV", 119, 124>>, <<"CSA", 124, 127>>, <<"NECTA", 127, 132>>,
       <<"NECTASC", 132, 134>>, <<"NECTADIV", 134, 139>>, <<"CNECTA", 139,
       142>>, <<"CBSAPCI", 142, 143>>, <<"NECTAPCI", 143, 144>>, <<"UA", 144,
       149>>, <<"UASC", 149, 151>>, <<"UATYPE", 151, 152>>, <<"UR", 152, 153>>,
       <<"CD", 153, 155>>, <<"SLDU", 155, 158>>, <<"SLDL", 158, 161>>, <<"VTD",
       161, 167>>, <<"VTDI", 167, 168>>, <<"RESERVE2", 168, 171>>, <<"ZCTA5",
       171, 176>>, <<"SUBMCD", 176, 181>>, <<"SUBMCDCC", 181, 183>>, <<"SDELM",
       183, 188>>, <<"SDSEC", 188, 193>>, <<"SDUNI", 193, 198>>, <<"AREALAND",
       198, 212>>, <<"AREAWATR", 212, 226>>, <<"NAME", 226, 316>>,
       <<"FUNCSTAT", 316, 317>>, <<"GCUNI", 317, 318>>, <<"POP100", 318, 327>>,
       <<"HU100", 327, 336>>, <<"INTPTLAT", 336, 347>>, <<"INTPTLON", 347,
       359>>, <<"LSADC", 359, 361>>, <<"PARTFLAG", 361, 362>>, <<"RESERVE3",
       362, 368>>, <<"UGA", 368, 373>>, <<"STATENS", 373, 381>>, <<"COUNTYNS",
       381, 389>>, <<"COUSUBNS", 389, 397>>, <<"PLACENS", 397, 405>>,
       <<"CONCITNS", 405, 413>>, <<"AIANHHNS", 413, 421>>, <<"AITSNS", 421,
       429>>, <<"ANRCNS", 429, 437>>, <<"SUBMCDNS", 437, 445>>, <<"CD113", 445,
       447>>, <<"CD114", 447, 449>>, <<"CD115", 449, 451>>, <<"SLDU2", 451,
       454>>, <<"SLDU3", 454, 457>>, <<"SLDU4", 457, 460>>, <<"SLDL2", 460,
       463>>, <<"SLDL3", 463, 466>>, <<"SLDL4", 466, 469>>, <<"AIANHHSC", 469,
       471>>, <<"CSASC", 471, 473>>, <<"CNECTASC", 473, 475>>, <<"MEMI", 475,
       476>>, <<"NMEMI", 476, 477>>, <<"PUMA", 477, 482>>, <<"RESERVED", 482,
       500>> >>

\* The arms of the match in get_span, in the order written.
SpanArms ==
    << <<"FILEID", 0, 6>>, <<"STUSAB", 6, 8>>, <<"SUMLEV", 8, 11>>,
       <<"GEOCOMP", 11, 13>>, <<"CHARITER", 13, 16>>, <<"CIFSN", 16, 18>>,
       <<"LOGRECNO", 18, 25>>, <<"REGION", 25, 26>>, <<"DIVISION", 26, 27>>,
       <<"STATE", 27, 29>>, <<"COUNTY", 29, 32>>, <<"COUNTYCC", 32, 34>>,
       <<"COUNTYSC", 34, 36>>, <<"COUSUB", 36, 41>>, <<"COUSUBCC", 41, 43>>,
       <<"COUSUBSC", 43, 45>>, <<"PLACE", 45, 50>>, <<"PLACECC", 50, 52>>,
       <<"PLACESC", 52, 54>>, <<"TRACT", 54, 60>>, <<"BLKGRP", 60, 61>>,
       <<"BLOCK", 61, 65>>, <<"IUC", 65, 67>>, <<"CONCIT", 67, 72>>,
       <<"CONCITCC", 72, 74>>, <<"CONCITSC", 74, 76>>, <<"AIANHH", 76, 80>>,
       <<"AIANHHFP", 80, 85>>, <<"AIANHHCC", 85, 87>>, <<"AIHHTLI", 87, 88>>,
       <<"AITSCE", 88, 91>>, <<"AITS", 91, 96>>, <<"AITSCC", 96, 98>>,
       <<"TTRACT", 98, 104>>, <<"TBLKGRP", 104, 105>>, <<"ANRC", 105, 110>>,
       <<"ANRCCC", 110, 112>>, <<"CBSA", 112, 117>>, <<"CBASC", 117, 119>>,
       <<"METDIV", 119, 124>>, <<"CSA", 124, 127>>, <<"NECTA", 127, 132>>,
       <<"NECTASC", 132, 134>>, <<"NECTADIV", 134, 139>>, <<"CNECTA", 139,
       142>>, <<"CBSAPCI", 142, 143>>, <<"NECTAPCI", 143, 144>>, <<"UA", 144,
       149>>, <<"UASC", 149, 151>>, <<"UATYPE", 151, 152>>, <<"UR", 152, 153>>,
       <<"CD", 153, 155>>, <<"SLDU", 155, 158>>, <<"SLDL", 158, 161>>, <<"VTD",
       161, 167>>, <<"VTDI", 167, 168>>, <<"RESERVE2", 168, 171>>, <<"ZCTA5",
       171, 176>>, <<"SUBMCD", 176, 181>>, <<"SUBMCDCC", 181, 183>>, <<"SDELM",
       183, 188>>, <<"SDSEC", 188, 193>>, <<"SDUNI", 193, 198>>, <<"AREALAND",
       198, 212>>, <<"AREAWATR", 212, 226>>, <<"NAME", 226, 316>>,
       <<"FUNCSTAT", 316, 317>>, <<"GCUNI", 317, 318>>, <<"POP100", 318, 327>>,
       <<"HU100", 327, 336>>, <<"INTPTLAT", 336, 347>>, <<"INTPTLON", 347,
       359>>, <<"LSADC", 359, 361>>, <<"PARTFLAG", 361, 362>>, <<"RESERVE3",
       362, 368>>, <<"UGA", 368, 373>>, <<"STATENS", 373, 381>>, <<"COUNTYNS",
       381, 389>>, <<"COUSUBNS", 389, 397>>, <<"PLACENS", 397, 405>>,
       <<"CONCITNS", 405, 413>>, <<"AIANHHNS", 413, 421>>, <<"AITSNS", 421,
       429>>, <<"ANRCNS", 429, 437>>, <<"SUBMCDNS", 437, 445>>, <<"CD113", 445,
       447>>, <<"CD114", 447, 449>>, <<"CD115", 449, 451>>, <<"SLDU2", 451,
       454>>, <<"SLDU3", 454, 457>>, <<"SLDU4", 457, 460>>, <<"SLDL2", 460,
       463>>, <<"SLDL3", 463, 466>>, <<"SLDL4", 466, 469>>, <<"AIANHHSC", 469,
       471>>, <<"CSASC", 471, 473>>, <<"CNECTASC", 473, 475>>, <<"MEMI", 475,
       476>>, <<"NMEMI", 476, 477>>, <<"PUMA", 477, 482>>, <<"RESERVED", 482,
       500>> >>

\* An arm list in which every range starts one byte further on.
GetSpanShifted(field) ==
    LET k == CHOOSE k \in 1..Len(SpanArms) : SpanArms[k][1] = field
    IN  [start |-> SpanArms[k][2] + 1, end |-> SpanArms[k][3]]

\* get_span(field): the range of the arm that matches the variant.
GetSpan(field) ==
    LET k == CHOOSE k \in 1..Len(SpanArms) : SpanArms[k][1] = field
    IN  [start |-> SpanArms[k][2], end |-> SpanArms[k][3]]

\* str::trim on a value, a sequence of characters: leading and trailing
\* white space is removed.
RECURSIVE Trim(_)
Trim(v) ==
    IF v = <<>> THEN v
    ELSE IF Head(v) = " " THEN Trim(Tail(v))
    ELSE IF v[Len(v)] = " " THEN Trim(SubSeq(v, 1, Len(v) - 1))
    ELSE v

\* fields() keeping every field whose untrimmed slice is non-empty.
FieldsOfUntrimmed(l) ==
    [k \in 1..Len(FIELDS) |->
        <<FIELDS[k],
          Trim(SubSeq(l, GetSpan(FIELDS[k]).start + 1, GetSpan(FIELDS[k]).end))>>]

\* fields(s): FIELDS.iter().filter_map(..): the trimmed slice of every field
\* for which it is not empty.
FieldsOf(l) ==
    LET NonEmpty(pair) == Len(pair[2]) > 0
    IN  SelectSeq([k \in 1..Len(FIELDS) |->
                      <<FIELDS[k],
                        Trim(SubSeq(l, GetSpan(FIELDS[k]).start + 1,
                                    GetSpan(FIELDS[k]).end))>>],
                  NonEmpty)

\* all_fields(line): FIELDS.iter().map(|field| (field,
\* &line[get_span(field)])).collect()
AllFields ==
    /\ pl_status = "idle"
    /\ header_line # <<>>
    /\ spans = <<>>
    /\ spans' = [k \in 1..Len(FIELDS) |->
                    [field |-> FIELDS[k],
                     span  |-> GetSpan(FIELDS[k]),
                     value |-> SubSeq(header_line, GetSpan(FIELDS[k]).start + 1,
                                      GetSpan(FIELDS[k]).end)]]
    /\ UNCHANGED <<pl_schema, pl_lines, pl_pos, current_columns, emitted,
                   table_locations, pl_status, parsed, header_line,
                   fields_trimmed,
                   fields_nonempty, disk_vars, ds_vars, prog_vars>>

\* all_fields_trimmed(line): the same map with .trim() on every slice.
AllFieldsTrimmed ==
    /\ pl_status = "idle"
    /\ header_line # <<>>
    /\ fields_trimmed = None
    /\ fields_trimmed' =
          Some([k \in 1..Len(FIELDS) |->
                  <<FIELDS[k],
                    Trim(SubSeq(header_line, GetSpan(FIELDS[k]).start + 1,
                                GetSpan(FIELDS[k]).end))>>])
    /\ UNCHANGED <<pl_schema, pl_lines, pl_pos, current_columns, emitted,
                   table_locations, pl_status, parsed, header_line, spans,
                   fields_nonempty, disk_vars, ds_vars, prog_vars>>

Fields ==
    /\ pl_status = "idle"
    /\ header_line # <<>>
    /\ fields_nonempty = None
    /\ fields_nonempty' = Some(FieldsOf(header_line))
    /\ UNCHANGED <<pl_schema, pl_lines, pl_pos, current_columns, emitted,
                   table_locations, pl_status, parsed, header_line, spans,
                   fields_trimmed, disk_vars, ds_vars, prog_vars>>

\* Header lines of 500 bytes: blank, or with LOGRECNO filled, and with one
\* more field holding text at its first byte, at its last byte, or all over.
LayoutLines ==
    { [i \in 1..ConstantRanges[Len(ConstantRanges)][3] |->
          IF /\ i > ConstantRanges[k][2]
             /\ i <= ConstantRanges[k][3]
             /\ \/ how = "all"
                \/ how = "first" /\ i = ConstantRanges[k][2] + 1
                \/ how = "last" /\ i = ConstantRanges[k][3]
          THEN "x"
          ELSE IF base = "logrecno" /\ i > 18 /\ i <= 25 THEN "0"
          ELSE " "]
      : k \in 1..Len(ConstantRanges),
        how \in {"none", "first", "last", "all"},
        base \in {"blank", "logrecno"} }

FieldsInit ==
    /\ pl_schema = Census2010
    /\ pl_lines = <<>>
    /\ pl_pos = 0
    /\ current_columns = EmptyMap
    /\ emitted = <<>>
    /\ table_locations = EmptyMap
    /\ pl_status = "idle"
    /\ parsed = None
    /\ header_line \in LayoutLines
    /\ spans = <<>>
    /\ fields_trimmed = None
    /\ fields_nonempty = None
    /\ DiskIdle
    /\ New

SpecFields == FieldsInit /\ [][AllFields \/ AllFieldsTrimmed \/ Fields]_vars

\* ------------------------------------------------------------------------
\* Properties of the packing-list parser (SpecPL)
\* ------------------------------------------------------------------------

\* The tokens of a table line that parse as FILE:WIDTH, in manifest order.
Accepted(line) == SelectSeq(line.loc, LAMBDA t : t.ok)

\* The accepted specifiers that precede specifier j of line i in the
\* manifest.
SpecifiersBefore(i, j) ==
    Flatten([k \in 1..(i - 1) |-> Accepted(pl_lines[k])])
    \o SubSeq(Accepted(pl_lines[i]), 1, j - 1)

WidthsBefore(i, j, f) ==
    SumSeq([k \in 1..Len(SelectSeq(SpecifiersBefore(i, j),
                                   LAMBDA t : t.file = f)) |->
              SelectSeq(SpecifiersBefore(i, j), LAMBDA t : t.file = f)[k].columns])

\* C1: the j-th location produced for the i-th table line has the file of
\* the j-th specifier of that line, starts at 5 plus the widths of every
\* earlier specifier of the manifest naming the same file, and ends at its
\* start plus its own width; on the Indiana manifest the five tables get
\* 5..76, 76..149, 5..76, 76..149 and 149..152.
C1_CursorRanges ==
    /\ \A i \in 1..Len(emitted) :
          /\ Len(emitted[i][2]) = Len(Accepted(pl_lines[i]))
          /\ \A j \in 1..Len(emitted[i][2]) :
                LET loc == emitted[i][2][j]
                    sp  == Accepted(pl_lines[i])[j]
                IN  /\ loc.file = sp.file
                    /\ loc.start = 5 + WidthsBefore(i, j, sp.file)
                    /\ loc.end = loc.start + sp.columns
    /\ (pl_status = "ok" /\ pl_lines = Indiana2010 /\ pl_schema = Census2010)
          => /\ table_locations[<<Census2010, "p1">>]
                  = <<[file |-> 1, start |-> 5, end |-> 76]>>
             /\ table_locations[<<Census2010, "p2">>]
                  = <<[file |-> 1, start |-> 76, end |-> 149]>>
             /\ table_locations[<<Census2010, "p3">>]
                  = <<[file |-> 2, start |-> 5, end |-> 76]>>
             /\ table_locations[<<Census2010, "p4">>]
                  = <<[file |-> 2, start |-> 76, end |-> 149]>>
             /\ table_locations[<<Census2010, "h1">>]
                  = <<[file |-> 2, start |-> 149, end |-> 152]>>

\* The Indiana manifest is parsed to the end and h1 follows p3 and p4 in
\* file 2.
C1_Witness ==
    /\ pl_status = "ok"
    /\ pl_lines = Indiana2010
    /\ pl_schema = Census2010
    /\ <<Census2010, "h1">> \in DOMAIN table_locations
    /\ table_locations[<<Census2010, "h1">>][1].start = 149

\* ------------------------------------------------------------------------
\* Properties of retrieval by logical record number (Spec)
\* ------------------------------------------------------------------------

\* The segments of the requested tables, in request order and, within a
\* table, in stored order.
RequestedSegments(schemas) ==
    Flatten([k \in 1..Len(schemas) |-> tables[schemas[k]]])

\* Every requested table is located, every file a segment names is open and
\* its position index holds n.
Retrievable(n, schemas) ==
    /\ IsSome(logical_record_index)
    /\ \A k \in 1..Len(schemas) :
          /\ schemas[k] \in DOMAIN tables
          /\ \A j \in 1..Len(tables[schemas[k]]) :
                LET fty == Tabular(tables[schemas[k]][j].file)
                IN  /\ fty \in DOMAIN files
                    /\ fty \in DOMAIN Unwrap(logical_record_index)
                    /\ n \in DOMAIN Unwrap(logical_record_index)[fty]

\* What a request for the one segment seg of record n yields.
SegmentAlone(n, seg) ==
    ReadSegment(Unwrap(logical_record_index), files, n, seg,
                debug_assertions).cells

LastRowWith(f, n) ==
    CHOOSE i \in 1..Len(tabular_disk[f]) :
        /\ tabular_disk[f][i] = n
        /\ \A k \in (i + 1)..Len(tabular_disk[f]) : tabular_disk[f][k] # n

\* The cells of columns start..end-1 of that row, as they are on disk.
CellsOnDisk(n, seg) ==
    [k \in 1..(seg.end - seg.start) |->
        CellValue(seg.file, LastRowWith(seg.file, n), seg.start + k - 1)]

IndexedAfterUnpack ==
    ret.op = "index" /\ ret.status = "ok" /\ unpacked > 0

\* C4: after index() succeeds on an unpacked dataset, the position index of
\* every tabular file of the manifest has an entry for each logical record
\* number from 1 to the manifest's row count of that file.
C4_EveryRowIndexed ==
    IndexedAfterUnpack
    => \A k \in 1..Len(packing_list.finfo) :
          LET fty == packing_list.finfo[k].ident
          IN  IsTabular(fty)
              => /\ fty \in DOMAIN Unwrap(logical_record_index)
                 /\ \A n \in 1..packing_list.finfo[k].rows :
                       n \in DOMAIN Unwrap(logical_record_index)[fty]

GeoIdOfLine(i) ==
    GeoIdOf(header_disk[i].state, header_disk[i].county, header_disk[i].tract,
            header_disk[i].block)

\* C5: every entry g -> (logrecno, offset) of the GEOID index has at offset
\* the first byte of a header line whose four GEOID spans concatenate to g
\* and whose LOGRECNO span parses to logrecno; the header fetched for g is
\* that line, and its logrecno() is the number returned for g.
C5_HeaderIndexConsistent ==
    /\ IsSome(header_index)
       => \A g \in DOMAIN Unwrap(header_index) :
             LET at == HeaderLineAt(Unwrap(header_index)[g][2])
             IN  /\ IsSome(at)
                 /\ GeoIdOfLine(Unwrap(at)) = g
                 /\ header_disk[Unwrap(at)].logrecno
                      = Some(Unwrap(header_index)[g][1])
    /\ (ret.op = "get_header_for_geoid" /\ ret.status = "ok")
       => /\ ret.line \in 1..Len(header_disk)
          /\ GeoIdOfLine(ret.line) = ret.geoid
          /\ ret.logrecno = Unwrap(header_index)[ret.geoid][1]
    /\ (ret.op = "get_logical_record_number_for_geoid" /\ ret.status = "ok")
       => \E i \in 1..Len(header_disk) :
             /\ GeoIdOfLine(i) = ret.geoid
             /\ header_disk[i].logrecno = Some(ret.logrecno)

\* The header of a block that follows a skipped summary row was fetched.
C5_Witness ==
    /\ ret.op = "get_header_for_geoid"
    /\ ret.status = "ok"
    /\ ret.line > 1
    /\ header_disk[1].block = "    "

\* Line i of the header file is the GEOID index's entry for its GEOID.
Inserted(i) ==
    /\ GeoIdOfLine(i) \in DOMAIN Unwrap(header_index)
    /\ Unwrap(header_index)[GeoIdOfLine(i)][2] = HeaderOffset(i)

\* C6: when index() has scanned the header file, a line is in the GEOID
\* index exactly if its BLOCK span is not four spaces; no lookup by GEOID
\* ever succeeds for a line whose BLOCK span is blank.
C6_BlockLevelOnly ==
    /\ (IndexedAfterUnpack /\ GeographicalHeader \in DOMAIN files)
       => \A i \in 1..Len(header_disk) :
             Inserted(i) <=> header_disk[i].block # "    "
    /\ (/\ ret.op \in {"get_logical_record_number_for_geoid",
                       "get_header_for_geoid"}
        /\ ret.status = "ok")
       => \A i \in 1..Len(header_disk) :
             GeoIdOfLine(i) = ret.geoid => header_disk[i].block # "    "

\* The header file held a tract-level summary row and a block row whose
\* COUNTY span is blank, and the scan succeeded.
C6_Witness ==
    /\ IndexedAfterUnpack
    /\ GeographicalHeader \in DOMAIN files
    /\ \E i \in 1..Len(header_disk) : header_disk[i] = TractRow(Some(1))
    /\ \E i \in 1..Len(header_disk) : header_disk[i] = NoCountyRow(Some(1))

\* ------------------------------------------------------------------------
\* Properties of the lifecycle and of the failures (Spec)
\* ------------------------------------------------------------------------

Lifecycle ==
    IF IsSome(logical_record_index) \/ IsSome(header_index) THEN "Indexed"
    ELSE IF unpacked > 0 THEN "Unpacked"
    ELSE "Empty"

\* C7: the dataset only moves Empty -> Unpacked by a successful unpack and
\* Unpacked -> Indexed by a successful index; unpack succeeds at most once
\* and index succeeds at most once.
C7_OneWayLifecycle ==
    [][ /\ Lifecycle' # Lifecycle
           => \/ Lifecycle = "Empty" /\ Lifecycle' = "Unpacked"
              \/ Lifecycle = "Unpacked" /\ Lifecycle' = "Indexed"
        /\ unpacked' <= 1
        /\ indexed' <= 1 ]_vars

RetrievalOps ==
    {"get_logical_record", "get_file_backed_logical_record",
     "get_logical_record_number_for_geoid",
     "get_header_for_geoid"}

\* C8: a retrieval on a dataset whose index is absent returns the
\* not-indexed error and the process goes on.
C8_NotIndexedIsAnError ==
    (ret.op \in RetrievalOps /\ ~IsSome(logical_record_index)
                             /\ ~IsSome(header_index))
    => ret.status = "err" /\ process = "running"

\* C10: a lookup of a GEOID that is not a key of the GEOID index of an
\* indexed dataset returns the unknown-GEOID error and the process goes on.
C10_UnknownGeoidIsAnError ==
    (/\ ret.op \in {"get_logical_record_number_for_geoid",
                    "get_header_for_geoid"}
     /\ IsSome(header_index)
     /\ ret.geoid \notin DOMAIN Unwrap(header_index))
    => ret.status = "err" /\ process = "running"

\* ------------------------------------------------------------------------
\* The two parsers on one manifest
\* ------------------------------------------------------------------------

\* Bound on the tokens of the generated table lines handed to both parsers.
MaxTextTokens == 2

\* Manifest texts: table lines with the run of lines seps before each of them
\* and after the last.  The runs hold separators of 80 and 81 '#', a shorter
\* row of '#', empty lines, and a section of empty lines only.
ManifestTexts ==
    LET H(n) == [hashes |-> n]
        runs == { <<>>, <<H(80)>>, <<H(81)>>, <<H(79)>>, <<H(0)>>,
                  <<H(80), H(0), H(80)>> }
        Interleave(base, seps) ==
            Flatten([i \in 1..Len(base) |-> seps \o <<base[i]>>]) \o seps
    IN  { Interleave(base, seps) :
             base \in TableLineSeqs[MaxTextTokens]
                        \cup {Indiana2010, ManifestSplit.tinfo,
                              ManifestReversed.tinfo},
             seps \in runs }

\* One manifest of a 2010 release, with or without its header line, is
\* handed to from_str and to unpack.
ParsersInit ==
    /\ PLIdle
    /\ New
    /\ tabular_disk = [f \in {1, 2} |-> <<>>]
    /\ header_disk = <<>>
    /\ debug_assertions \in BOOLEAN
    /\ packing_list \in
          [finfo : { NamedFiles(<<"2010", "pl">>, <<"2010", "pl">>),
                     <<FileLine(Tabular(1), "2010", "pl", MaxRows)>> },
           tinfo : ManifestTexts]

SpecParsers == ParsersInit /\ [][FromStr \/ Unpack]_vars

\* C30: on a manifest whose table lines hold FILE:WIDTH tokens only and name
\* tables of the 2010 schema, unpack and from_str arrive at the same table
\* locations: the same tables, each with the same files and column ranges,
\* with and without '#' lines between the table lines.
C30_ParsersAgree ==
    LET lines == SelectSeq(packing_list.tinfo, MatchesTableRE)
    IN  (/\ \A k \in 1..Len(lines) :
               TableLineParses(lines[k]) /\ lines[k].name \in Tables2010
         /\ unpacked > 0
         /\ IsSome(parsed))
        => /\ Unwrap(parsed).schema = Census2010
           /\ tables = Unwrap(parsed).table_locations

\* Both parsers have accepted a manifest that has separator lines of 80 '#'
\* between the lines of several tables.
C30_Witness ==
    /\ unpacked > 0
    /\ IsSome(parsed)
    /\ Cardinality(DOMAIN tables) >= 3
    /\ \E k \in 2..Len(packing_list.tinfo) :
          /\ ~MatchesTableRE(packing_list.tinfo[k])
          /\ packing_list.tinfo[k].hashes = 80
          /\ MatchesTableRE(packing_list.tinfo[k - 1])

\* C29: a retrieval, whether it returns a value or fails, leaves the
\* schema, the table locations, both indexes and the set of open files as
\* they were; only the seek positions of the files may change.
C29_RetrievalsReadOnly ==
    [][ ret'.op \in RetrievalOps
        => /\ schema' = schema
           /\ tables' = tables
           /\ logical_record_index' = logical_record_index
           /\ header_index' = header_index
           /\ DOMAIN files' = DOMAIN files ]_vars

\* A retrieval on an indexed dataset returned the geographical header of
\* logical record 2.
C29_Witness ==
    /\ ret.op = "get_header_for_geoid"
    /\ ret.status = "ok"
    /\ ret.logrecno = 2
    /\ IsSome(logical_record_index)

\* C27: every GEOID of the GEOID index comes from a header row whose STATE,
\* COUNTY, TRACT and BLOCK spans are all non-blank; a row with a BLOCK but
\* with a blank COUNTY or TRACT is not in the index.
C27_AllFourSpansNonBlank ==
    (IndexedAfterUnpack /\ GeographicalHeader \in DOMAIN files)
    => \A i \in 1..Len(header_disk) :
          Inserted(i) => /\ header_disk[i].state # "  "
                         /\ header_disk[i].county # "   "
                         /\ header_disk[i].tract # "      "
                         /\ header_disk[i].block # "    "

\* C11: on an indexed dataset, a request for a record number that a needed
\* position index does not hold, or for a table without a stored location,
\* returns an error value (UnknownLogrecno) and no cells, and the process
\* goes on.
C11_UnknownLogrecnoIsAnError ==
    (/\ ret.op = "get_logical_record"
     /\ IsSome(logical_record_index)
     /\ ~Retrievable(ret.number, ret.schemas))
    => (ret.status = "err" /\ ret.cells = <<>> /\ process = "running")

\* The places the cursors of the open files can be at when a call starts:
\* every tabular file at the start of any of its records, or at its end.
Cursors ==
    {c \in [DOMAIN files ->
               {files[fty] : fty \in DOMAIN files} \cup
               UNION {{RowOffset(f, i) : i \in 1..(Len(tabular_disk[f]) + 1)}
                         : f \in DOMAIN tabular_disk}] :
        \A fty \in DOMAIN files :
           IF IsTabular(fty)
           THEN \E i \in 1..(Len(tabular_disk[fty]) + 1) :
                   c[fty] = RowOffset(fty, i)
           ELSE c[fty] = files[fty]}

C13_FailureLeavesPriorState ==
    [][ (/\ ret' # ret
         /\ ret'.op \in {"unpack", "index"}
         /\ ret'.status \in {"err", "panic"})
        => (ds_vars' = ds_vars /\ process' = "running") ]_vars

\* C19: when two rows of the header file that reach the GEOID index have
\* the same GEOID, index() returns an error value (DuplicateGeoid), the
\* process goes on and the dataset is not indexed.
C19_DuplicateGeoidIsAnError ==
    (/\ ret.op = "index"
     /\ GeographicalHeader \in DOMAIN files
     /\ \A i \in 1..Len(header_disk) :
           header_disk[i].block # "    " => IsSome(header_disk[i].logrecno)
     /\ \E i, j \in 1..Len(header_disk) :
           /\ i < j
           /\ header_disk[i].block # "    "
           /\ header_disk[j].block # "    "
           /\ GeoIdOfLine(i) = GeoIdOfLine(j))
    => (/\ ret.status = "err"
        /\ process # "aborted"
        /\ ~IsSome(header_index))

\* ------------------------------------------------------------------------
\* Properties of parallel readers (SpecConc)
\* ------------------------------------------------------------------------

\* What the call behind a reader's result returns when it runs alone.
Alone(res) ==
    IF res.op = "get_logical_record"
    THEN LET solo == ReadTables(Unwrap(logical_record_index), Started(files),
                                res.number, res.schemas, debug_assertions)
         IN  [res EXCEPT !.status = IF solo.ok THEN "ok" ELSE "panic",
                         !.cells = solo.cells]
    ELSE LET at == HeaderLineAt(Unwrap(header_index)[res.geoid][2])
         IN  [res EXCEPT !.status = "ok",
                         !.line = Unwrap(at),
                         !.logrecno = HeaderLogrecno(Unwrap(at))]

\* C9: whatever the interleaving of the readers' seeks and reads, a call
\* that has returned (or aborted) did what it does when run alone.
C9_ReadersUndisturbed ==
    \A r \in Readers :
       readers[r].result.op # "none"
       => /\ readers[r].result.status = "ok"
          /\ readers[r].result = Alone(readers[r].result)

\* C28: a call of get_logical_record(n, Ts) that returns a record returns
\* cells of CSV records whose LOGRECNO is n, never those of a record
\* carrying another number.
C28_CellsOfRecordN ==
    \A r \in Readers :
       (/\ readers[r].result.op = "get_logical_record"
        /\ readers[r].result.status = "ok")
       => readers[r].result.cells =
             Flatten([j \in 1..Len(RequestedSegments(readers[r].result.schemas)) |->
                        CellsOnDisk(readers[r].result.number,
                                    RequestedSegments(
                                        readers[r].result.schemas)[j])])

\* ------------------------------------------------------------------------
\* Further properties of the packing-list parser (SpecPL)
\* ------------------------------------------------------------------------

\* C23: in an accepted packing list, of two segments of the same tabular
\* file (of one table or of two) the one that comes first in the manifest
\* ends at or before the column where the other starts, and every segment
\* starts at column 5 or later: the ranges of a file do not overlap and
\* increase in manifest order.
C23_RangesOfAFileInOrder ==
    pl_status = "ok"
    => LET LineOf(t) ==
               CHOOSE i \in 1..Len(pl_lines) :
                  /\ TableOf(pl_schema, pl_lines[i].name) = Some(t)
                  /\ \A k \in (i + 1)..Len(pl_lines) :
                        TableOf(pl_schema, pl_lines[k].name) # Some(t)
       IN  \A t \in DOMAIN table_locations :
              \A j \in 1..Len(table_locations[t]) :
                 /\ table_locations[t][j].start >= 5
                 /\ table_locations[t][j].start <= table_locations[t][j].end
                 /\ \A u \in DOMAIN table_locations :
                       \A k \in 1..Len(table_locations[u]) :
                          (/\ table_locations[u][k].file
                                 = table_locations[t][j].file
                           /\ \/ LineOf(t) < LineOf(u)
                              \/ t = u /\ j < k)
                          => table_locations[t][j].end
                                <= table_locations[u][k].start

\* An accepted manifest in which two tables have a segment in file 1 and
\* one of them has two.
C23_Witness ==
    /\ pl_status = "ok"
    /\ \E t, u \in DOMAIN table_locations :
          /\ t # u
          /\ Len(table_locations[t]) = 2
          /\ table_locations[t][1].file = 1
          /\ table_locations[t][2].file = 1
          /\ Len(table_locations[u]) >= 1
          /\ table_locations[u][1].file = 1

\* C24: in an accepted packing list every table has as many segments as its
\* manifest line has FILE:WIDTH tokens, in the same order (the same files),
\* and the lengths of its ranges add up to the widths written on the line.
C24_WidthPreserved ==
    pl_status = "ok"
    => \A t \in DOMAIN table_locations :
          \E i \in 1..Len(pl_lines) :
             /\ TableOf(pl_schema, pl_lines[i].name) = Some(t)
             /\ \A k \in (i + 1)..Len(pl_lines) :
                   TableOf(pl_schema, pl_lines[k].name) # Some(t)
             /\ Len(table_locations[t]) = Len(Accepted(pl_lines[i]))
             /\ \A j \in 1..Len(table_locations[t]) :
                   table_locations[t][j].file = Accepted(pl_lines[i])[j].file
             /\ SumSeq([j \in 1..Len(table_locations[t]) |->
                          table_locations[t][j].end
                             - table_locations[t][j].start])
                   = SumSeq([j \in 1..Len(Accepted(pl_lines[i])) |->
                               Accepted(pl_lines[i])[j].columns])

\* An accepted manifest with a table split across both files, file 2 first,
\* its line three columns wide in all.
C24_Witness ==
    /\ pl_status = "ok"
    /\ \E t \in DOMAIN table_locations :
          /\ Len(table_locations[t]) = 2
          /\ table_locations[t][1].file = 2
          /\ table_locations[t][2].file = 1
          /\ table_locations[t][2].end - table_locations[t][2].start = 2
          /\ table_locations[t][1].end - table_locations[t][1].start = 1

\* C26: a table line with a token that is not of the shape FILE:WIDTH makes
\* the parser stop with an error value; it never yields the table with the
\* token left out.
C26_BadTokenIsAnError ==
    (/\ pl_status # "parsing"
     /\ \A k \in 1..Len(pl_lines) : IsSome(TableOf(pl_schema, pl_lines[k].name))
     /\ \E k \in 1..Len(pl_lines) :
           Len(Accepted(pl_lines[k])) < Len(pl_lines[k].loc))
    => (pl_status = "err" /\ table_locations = EmptyMap)

\* C17: a table line whose name is not a table of the schema (p5 in a 2010
\* manifest) makes the parser stop with an error value (UnknownTable)
\* without aborting, and no table location is produced.
C17_UnknownTableIsAnError ==
    (/\ pl_status # "parsing"
     /\ \E k \in 1..Len(pl_lines) :
           ~IsSome(TableOf(pl_schema, pl_lines[k].name)))
    => (pl_status = "err" /\ table_locations = EmptyMap)

\* ------------------------------------------------------------------------
\* Properties of PackingList::from_str
\* ------------------------------------------------------------------------

\* from_str has run on a manifest whose file names all say 2010 / pl.
Parsed2010 ==
    /\ pl_status # "idle"
    /\ packing_list.finfo # <<>>
    /\ \A k \in 1..Len(packing_list.finfo) :
          IsSome(ExtractSchemas(packing_list.finfo)[k])

\* C14: a manifest whose file-information lines do not all carry the same
\* line count is rejected with an error value (InconsistentRowCount); the
\* parser never returns one of the disagreeing counts as the row count.
C14_InconsistentRowCountIsAnError ==
    (/\ Parsed2010
     /\ FirstHeader(packing_list.finfo) # 0
     /\ \E j, k \in 1..Len(packing_list.finfo) :
           packing_list.finfo[j].rows # packing_list.finfo[k].rows)
    => (pl_status = "err" /\ parsed = None)

\* C15: schema inference fails with an error value (UnknownSchema) when the
\* manifest names no file or names a file whose (year, extension) pair is
\* not recognised; it never aborts.
C15_SchemaFailureIsAnError ==
    (/\ pl_status # "idle"
     /\ \/ packing_list.finfo = <<>>
        \/ \E k \in 1..Len(packing_list.finfo) :
              ~IsSome(ExtractSchemas(packing_list.finfo)[k]))
    => (pl_status = "err" /\ parsed = None)

\* C25: in every PackingList that from_str returns, the file of every
\* segment of every table is a key of tabular_files; a manifest whose table
\* line names a file without a file-information line is not accepted.
C25_SegmentFilesListed ==
    IsSome(parsed)
    => \A t \in DOMAIN Unwrap(parsed).table_locations :
          \A j \in 1..Len(Unwrap(parsed).table_locations[t]) :
             Tabular(Unwrap(parsed).table_locations[t][j].file)
                \in DOMAIN Unwrap(parsed).tabular_files

\* C16: a manifest whose file names say 2020 / pl is parsed as
\* Census2020-PL94-171, and its table names p1..p4, h1, p5 map to the 2020
\* tables.
C16_Release2020Parses ==
    (/\ pl_status # "idle"
     /\ packing_list.finfo = NamedFiles(<<"2020", "pl">>, <<"2020", "pl">>)
     /\ packing_list.tinfo = Indiana2020)
    => (/\ pl_status = "ok"
        /\ IsSome(parsed)
        /\ Unwrap(parsed).schema = Census2020
        /\ DOMAIN Unwrap(parsed).table_locations =
              {<<Census2020, t>> : t \in Tables2020})

\* C18: exactly one geographical-header line is required; a manifest with
\* none, or with two or more, is rejected with an error value rather than
\* parsed with the first one found.
C18_ExactlyOneHeaderLine ==
    (/\ Parsed2010
     /\ Cardinality({k \in 1..Len(packing_list.finfo) :
                        packing_list.finfo[k].ident = GeographicalHeader}) # 1)
    => (pl_status = "err" /\ parsed = None)

\* ------------------------------------------------------------------------
\* Properties of the field catalog
\* ------------------------------------------------------------------------

\* C20: the ranges of the header fields, in declared order, tile 0..500:
\* the first starts at 0, each next one starts where the one before ends,
\* none is empty, the last ends at 500; and get_span gives every field the
\* range its constant has.
C20_CatalogTiles ==
    /\ Len(FIELDS) = Len(ConstantRanges)
    /\ \A k \in 1..Len(spans) :
          /\ spans[k].field = ConstantRanges[k][1]
          /\ spans[k].span.start = ConstantRanges[k][2]
          /\ spans[k].span.end = ConstantRanges[k][3]
          /\ spans[k].span.start < spans[k].span.end
          /\ spans[k].span.start = IF k = 1 THEN 0 ELSE spans[k - 1].span.end
          /\ k = Len(FIELDS) => spans[k].span.end = 500

\* all_fields has mapped every field, RESERVED last.
C20_Witness ==
    /\ Len(spans) = Len(FIELDS)
    /\ spans[Len(spans)].field = "RESERVED"
    /\ spans[Len(spans)].span = [start |-> 482, end |-> 500]

\* C21: the catalog of header fields has exactly 101 fields: the FIELDS
\* list, the Field enum and the table of constants each have 101 entries,
\* no field is listed twice, and all_fields returns 101 pairs.
C21_HundredAndOneFields ==
    /\ Len(FIELDS) = 101
    /\ Len(Field) = 101
    /\ Len(ConstantRanges) = 101
    /\ Cardinality({FIELDS[k] : k \in 1..Len(FIELDS)}) = Len(Field)
    /\ spans # <<>> => Len(spans) = 101

\* The catalog as the claim was first stated: 100 entries in each list.
C21_HundredFields ==
    /\ Len(FIELDS) = 100
    /\ Len(Field) = 100
    /\ Len(ConstantRanges) = 100
    /\ spans # <<>> => Len(spans) = 100

\* all_fields has returned, its 101st pair being the last variant's.
C21_Witness ==
    /\ spans # <<>>
    /\ spans[101].field = Field[Len(Field)]

\* C22: on a 500-byte line the three listings are in catalog order;
\* all_fields_trimmed is all_fields with every value trimmed, and fields is
\* the subsequence of all_fields_trimmed whose values are not empty.
C22_ListingsAgree ==
    /\ \A k \in 1..Len(spans) : spans[k].field = Field[k]
    /\ (spans # <<>> /\ IsSome(fields_trimmed))
       => Unwrap(fields_trimmed) =
             [k \in 1..Len(spans) |-> <<spans[k].field, Trim(spans[k].value)>>]
    /\ IsSome(fields_trimmed)
       => \A k \in 1..Len(Unwrap(fields_trimmed)) :
             Unwrap(fields_trimmed)[k][1] = Field[k]
    /\ (IsSome(fields_trimmed) /\ IsSome(fields_nonempty))
       => LET NonEmpty(pair) == pair[2] # <<>>
          IN  Unwrap(fields_nonempty) =
                 SelectSeq(Unwrap(fields_trimmed), NonEmpty)

\* The three functions have run on a line with LOGRECNO and one more field
\* filled, the latter with blanks before its text.
C22_Witness ==
    /\ spans # <<>>
    /\ IsSome(fields_trimmed)
    /\ IsSome(fields_nonempty)
    /\ Len(Unwrap(fields_nonempty)) = 2
    /\ \E k \in 1..Len(spans) :
          /\ Head(spans[k].value) = " "
          /\ Unwrap(fields_trimmed)[k][2] = <<"x">>

====
